---- MODULE Spec2Model ----
(***************************************************************************)
(* Model of jsonrescue (src/json_parser.py): Schema.validated and the      *)
(* JSONParser pipeline extract_json_candidates -> fix_json -> json.loads   *)
(* -> Schema.validated.                                                     *)
(*                                                                         *)
(* A text is a sequence of one-character strings.  A decoded value is a    *)
(* tagged record [t |-> kind, v |-> payload]:                              *)
(*   "null" (Python None), "bool", "int", "float" (payload: the lexeme),   *)
(*   "str" (payload: sequence of characters), "list" (sequence of values), *)
(*   "dict" (sequence of [k |-> key, x |-> value], insertion order).       *)
(* An exception leaving a function is the value Raised(kind).              *)
(*                                                                         *)
(* Three specifications share the variables:                               *)
(*   Spec          one call of JSONParser.parse, a step per statement of   *)
(*                 its loop;                                               *)
(*   SpecValidate  one call of Schema.validated on a decoded value;        *)
(*   SpecBrackets  one call of JSONParser.ensure_ending_brackets.          *)
(*                                                                         *)
(* BRACE_BRACKET is a pattern of the third-party regex module.  Its        *)
(* recursive group is modelled as an ordinary backtracking group: the      *)
(* alternatives are tried in the order written and an alternative that     *)
(* leads nowhere is given up for the next one.                             *)
(***************************************************************************)
EXTENDS Integers, Sequences, FiniteSets, TLC

VARIABLES
  pc,          \* where the call stands
  shape,       \* how the input text was put together (never read by the program)
  text,        \* the text argument
  schema,      \* the Schema (self.schema, or self of validated)
  cands,       \* json_candidates
  idx,         \* the position of the for loop in json_candidates
  fixed_json,  \* the local fixed_json
  loaded,      \* the local loaded; the argument data of validated
  result       \* the value returned or the exception raised

vars == <<pc, shape, text, schema, cands, idx, fixed_json, loaded, result>>

(***************************************************************************)
(* Characters                                                              *)
(***************************************************************************)
LBRACE == "{"
RBRACE == "}"
LBRACK == "["
RBRACK == "]"
DQ == "\""
SQ == "'"
BSL == "\\"
COLON == ":"
COMMA == ","
SP == " "
LF == "\n"
CR == "\r"
TAB == "\t"

\* str.isspace / the regex class \s on the characters the model uses
IsSpace(c) == c \in {SP, LF, CR, TAB}

Digits == {"0", "1", "2", "3", "4", "5", "6", "7", "8", "9"}

Letters == {"a", "b", "c", "d", "e", "f", "g", "h", "i", "j", "k", "l", "m",
            "n", "o", "p", "q", "r", "s", "t", "u", "v", "w", "x", "y", "z",
            "A", "B", "C", "D", "E", "F", "G", "H", "I", "J", "K", "L", "M",
            "N", "O", "P", "Q", "R", "S", "T", "U", "V", "W", "X", "Y", "Z"}

\* the regex classes [A-Za-z0-9_] and \w on the characters the model uses
IsWord(c) == c \in Letters \cup Digits \cup {"_"}

DigitVal(c) ==
  CASE c = "0" -> 0 [] c = "1" -> 1 [] c = "2" -> 2 [] c = "3" -> 3
    [] c = "4" -> 4 [] c = "5" -> 5 [] c = "6" -> 6 [] c = "7" -> 7
    [] c = "8" -> 8 [] c = "9" -> 9

(***************************************************************************)
(* Sequence helpers                                                        *)
(***************************************************************************)
Slice(s, i, j) == IF j < i THEN <<>> ELSE SubSeq(s, i, j)

Last(s) == s[Len(s)]

Front(s) == Slice(s, 1, Len(s) - 1)

\* s[i:].startswith(p)
StartsAt(s, i, p) ==
  /\ i + Len(p) - 1 <= Len(s)
  /\ \A k \in 1..Len(p) : s[i + k - 1] = p[k]

\* the position after the maximal run, starting at i, of characters of the
\* class In (a starred or plussed character class of a pattern, or a loop
\* that advances while the character is of the class)
SkipRun(In(_), s, i) ==
  IF i > Len(s) THEN i
  ELSE CHOOSE j \in i..(Len(s) + 1) :
         /\ \A k \in i..(j - 1) : In(s[k])
         /\ j = Len(s) + 1 \/ ~In(s[j])

SkipSpace(s, i) == SkipRun(IsSpace, s, i)

SkipWord(s, i) == SkipRun(IsWord, s, i)

\* str.strip()
Strip(s) ==
  LET solid == {k \in 1..Len(s) : ~IsSpace(s[k])}
  IN  IF solid = {} THEN <<>>
      ELSE Slice(s, CHOOSE k \in solid : \A m \in solid : k <= m,
                    CHOOSE k \in solid : \A m \in solid : m <= k)

RECURSIVE While(_, _, _, _)
\* A loop over the positions lo..hi of a text.  st.i is the position the
\* loop stands at and Body(st) is one turn, which leaves st.i further on; the
\* loop ends when st.i has passed hi.  The turns over lo..hi are those over
\* the first half of the range followed by those over the second.
While(Body(_), st, lo, hi) ==
  IF st.i > hi THEN st
  ELSE IF lo = hi THEN Body(st)
  ELSE LET mid == (lo + hi) \div 2
       IN  While(Body, While(Body, st, lo, mid), mid + 1, hi)

\* pattern.sub(replace, s) for a pattern that matches no empty text:
\* MatchEnd(s, i) is the position after the match that starts at i, or 0,
\* and Replace(s, i) is what the match is replaced by
Sub(MatchEnd(_, _), Replace(_, _), s) ==
  LET Turn(st) ==
        LET e == MatchEnd(s, st.i)
        IN  IF e = 0 THEN [i |-> st.i + 1, out |-> Append(st.out, s[st.i])]
            ELSE [i |-> e, out |-> st.out \o Replace(s, st.i)]
  IN  While(Turn, [i |-> 1, out |-> <<>>], 1, Len(s)).out

(***************************************************************************)
(* JSONParser.ensure_ending_brackets                                       *)
(***************************************************************************)
NoString == ""

opening_brackets(c) == IF c = LBRACE THEN RBRACE ELSE RBRACK

closing_brackets(c) == IF c = RBRACE THEN LBRACE ELSE LBRACK

IsOpening(c) == c \in {LBRACE, LBRACK}

IsClosing(c) == c \in {RBRACE, RBRACK}

RECURSIVE CloseUnclosedFifo(_)
CloseUnclosedFifo(stack) ==
  IF stack = <<>> THEN <<>>
  ELSE <<opening_brackets(Head(stack))>> \o CloseUnclosedFifo(Tail(stack))

RECURSIVE CloseUnclosed(_)
\* while stack: result.append(opening_brackets[stack.pop()])
CloseUnclosed(stack) ==
  IF stack = <<>> THEN <<>>
  ELSE <<opening_brackets(Last(stack))>> \o CloseUnclosed(Front(stack))

\* one turn of  for char in json_str
EnsureTurn(s, st) ==
  LET char == s[st.i]
      appended == [st EXCEPT !.i = st.i + 1, !.result = Append(st.result, char),
                             !.escape = FALSE]
  IN  IF st.escape THEN appended
      ELSE IF char = BSL THEN [appended EXCEPT !.escape = TRUE]
      ELSE IF char = DQ \/ char = SQ THEN
        [appended EXCEPT !.in_string =
           IF st.in_string = NoString THEN char
           ELSE IF st.in_string = char THEN NoString ELSE st.in_string]
      ELSE IF st.in_string # NoString THEN appended
      ELSE IF IsOpening(char) THEN [appended EXCEPT !.stack = Append(st.stack, char)]
      ELSE IF IsClosing(char) THEN
        IF st.stack # <<>> /\ Last(st.stack) = closing_brackets(char)
        THEN [appended EXCEPT !.stack = Front(st.stack)]
        ELSE [appended EXCEPT !.result = st.result]
      ELSE appended

ensure_ending_brackets(s) ==
  LET Turn(st) == EnsureTurn(s, st)
      end == While(Turn,
                   [i |-> 1, stack |-> <<>>, result |-> <<>>, in_string |-> NoString,
                    escape |-> FALSE],
                   1, Len(s))
  IN  end.result \o CloseUnclosed(end.stack)

(***************************************************************************)
(* JSONParser.fix_keys: the pattern is a delimiter "{" or ",", whitespace, *)
(* a run of [A-Za-z0-9_], whitespace, ":"                                  *)
(***************************************************************************)
\* the position after a match of the pattern starting at i, or 0
FixKeysMatchEnd(s, i) ==
  IF s[i] \notin {LBRACE, COMMA} THEN 0
  ELSE
    LET j == SkipSpace(s, i + 1)
        k == SkipWord(s, j)
        m == SkipSpace(s, k)
    IN  IF k > j /\ m <= Len(s) /\ s[m] = COLON THEN m + 1 ELSE 0

\* the inner function replace(match)
FixKeysReplace(s, i) ==
  LET j == SkipSpace(s, i + 1)
      k == SkipWord(s, j)
      prefix == Slice(s, i, j - 1)
      key == Slice(s, j, k - 1)
      quoted_key ==
        IF Head(key) = SQ /\ Last(key) = SQ
          THEN <<DQ>> \o Slice(key, 2, Len(key) - 1) \o <<DQ>>
        ELSE IF Head(key) = DQ /\ Last(key) = DQ THEN key
        ELSE <<DQ>> \o key \o <<DQ>>
  IN  prefix \o quoted_key \o <<COLON>>

fix_keys(s) == Sub(FixKeysMatchEnd, FixKeysReplace, s)

(***************************************************************************)
(* JSONParser.fix_string_values: the pattern is ":", whitespace, one       *)
(* character that is no bracket, brace, double quote, comma or whitespace, *)
(* then a run of characters other than "," "]" "}"                         *)
(***************************************************************************)
IsValueChar(c) == c \notin {COMMA, RBRACK, RBRACE}

\* the position after a maximal run of [^,\]}] starting at i
SkipValue(s, i) == SkipRun(IsValueChar, s, i)

IsDigit(c) == c \in Digits

SkipDigits(s, i) == SkipRun(IsDigit, s, i)

\* re.match(r'^(true|false|null)$', value)
IsJsonLiteral(v) ==
  v \in {<<"t", "r", "u", "e">>, <<"f", "a", "l", "s", "e">>, <<"n", "u", "l", "l">>}

\* re.match(r'^-?\d+(\.\d+)?$', value)
IsNumberLiteral(v) ==
  LET a == IF v # <<>> /\ v[1] = "-" THEN 2 ELSE 1
      b == SkipDigits(v, a)
  IN  /\ b > a
      /\ \/ b = Len(v) + 1
         \/ /\ b <= Len(v)
            /\ v[b] = "."
            /\ SkipDigits(v, b + 1) > b + 1
            /\ SkipDigits(v, b + 1) = Len(v) + 1

\* the position after a match of the pattern starting at i, or 0
FixValuesMatchEnd(s, i) ==
  IF s[i] # COLON THEN 0
  ELSE
    LET j == SkipSpace(s, i + 1)
    IN  IF /\ j <= Len(s)
           /\ s[j] \notin {LBRACE, LBRACK, RBRACK, DQ, COMMA, RBRACE}
           /\ ~IsSpace(s[j])
        THEN SkipValue(s, j + 1) ELSE 0

\* the inner function replace(match)
FixValuesReplace(s, i) ==
  LET j == SkipSpace(s, i + 1)
      prefix == Slice(s, i, j - 1)
      value == Strip(Slice(s, j, SkipValue(s, j + 1) - 1))
  IN  IF IsJsonLiteral(value) THEN prefix \o value
      ELSE IF IsNumberLiteral(value) THEN prefix \o value
      ELSE IF Head(value) = SQ /\ Last(value) = SQ
        THEN prefix \o <<DQ>> \o Slice(value, 2, Len(value) - 1) \o <<DQ>>
      ELSE IF Head(value) = DQ /\ Last(value) = DQ THEN prefix \o value
      ELSE prefix \o <<DQ>> \o value \o <<DQ>>

fix_string_values(s) == Sub(FixValuesMatchEnd, FixValuesReplace, s)

(***************************************************************************)
(* JSONParser.escape_illegal_characters                                    *)
(***************************************************************************)
\* s.replace(old, new) for a single character old
StrReplace(s, old, new) ==
  LET MatchEnd(t, i) == IF t[i] = old THEN i + 1 ELSE 0
      Replace(t, i) == new
  IN  Sub(MatchEnd, Replace, s)

\* the four str.replace calls: backslash first, then \n, \r, \t
EscapeControls(s) ==
  LET backslashes == StrReplace(s, BSL, <<BSL, BSL>>)
      newlines == StrReplace(backslashes, LF, <<BSL, "n">>)
      returns == StrReplace(newlines, CR, <<BSL, "r">>)
  IN  StrReplace(returns, TAB, <<BSL, "t">>)

\* one turn of the while loop deciding, for a double quote, whether it
\* opens, closes or is embedded in a string
EscapeTurn(s, st) ==
  LET char == s[st.i]
      j == SkipSpace(s, st.i + 1)
      next == [st EXCEPT !.i = st.i + 1]
  IN  IF char = DQ THEN
        IF ~st.in_string
        THEN [next EXCEPT !.in_string = TRUE, !.result = Append(st.result, DQ)]
        ELSE IF j > Len(s) \/ s[j] \in {COLON, COMMA, RBRACE, RBRACK}
        THEN [next EXCEPT !.in_string = FALSE, !.result = Append(st.result, DQ)]
        ELSE [next EXCEPT !.result = st.result \o <<BSL, DQ>>]
      ELSE [next EXCEPT !.result = Append(st.result, char)]

escape_illegal_characters(s) ==
  LET json_str == EscapeControls(s)
      Turn(st) == EscapeTurn(json_str, st)
  IN  While(Turn, [i |-> 1, result |-> <<>>, in_string |-> FALSE],
            1, Len(json_str)).result

(***************************************************************************)
(* JSONParser.insert_missing_commas                                        *)
(***************************************************************************)
\* re.sub of  close \s* open  by  close , open
CommaBetween(s, close, open) ==
  LET MatchEnd(t, i) ==
        LET j == SkipSpace(t, i + 1)
        IN  IF t[i] = close /\ j <= Len(t) /\ t[j] = open THEN j + 1 ELSE 0
      Replace(t, i) == <<close, COMMA, open>>
  IN  Sub(MatchEnd, Replace, s)

IsPrimitiveChar(c) == c \notin {DQ, COMMA, LBRACE, RBRACE, LBRACK, RBRACK}

\* the position after a maximal run of [^",{}\[\]] starting at i
SkipPrimitive(s, i) == SkipRun(IsPrimitiveChar, s, i)

\* the position after a match, starting at i, of the pattern  '":', a run
\* (at least one character, whitespace included) of characters other than
\* '"' ',' and the four brackets, '"', a run of \w, '":'; or 0
CommaKeyMatchEnd(s, i) ==
  IF ~StartsAt(s, i, <<DQ, COLON>>) THEN 0
  ELSE
    LET r == SkipPrimitive(s, i + 2)
        w == SkipWord(s, r + 1)
    IN  IF /\ r > i + 2
           /\ r <= Len(s)
           /\ s[r] = DQ
           /\ w > r + 1
           /\ StartsAt(s, w, <<DQ, COLON>>)
        THEN w + 2 ELSE 0

\* the replacement  \1, "\2":
CommaKeyReplace(s, i) ==
  LET r == SkipPrimitive(s, i + 2)
      e == CommaKeyMatchEnd(s, i)
  IN  Slice(s, i, r - 1) \o <<COMMA, SP, DQ>> \o Slice(s, r + 1, e - 3) \o <<DQ, COLON>>

insert_missing_commas(s) ==
  LET objects == CommaBetween(s, RBRACE, LBRACE)
      arrays == CommaBetween(objects, RBRACK, LBRACK)
  IN  Sub(CommaKeyMatchEnd, CommaKeyReplace, arrays)

(***************************************************************************)
(* JSONParser.fix_json                                                     *)
(***************************************************************************)
fix_json(s) ==
  LET keys == fix_keys(s)
      values == fix_string_values(keys)
      escaped == escape_illegal_characters(values)
      closed == ensure_ending_brackets(escaped)
  IN  insert_missing_commas(closed)

(***************************************************************************)
(* Decoded values                                                          *)
(***************************************************************************)
None == [t |-> "null", v |-> <<>>]

VBool(b) == [t |-> "bool", v |-> b]

VInt(n) == [t |-> "int", v |-> n]

VFloat(lexeme) == [t |-> "float", v |-> lexeme]

VStr(chars) == [t |-> "str", v |-> chars]

VList(items) == [t |-> "list", v |-> items]

VDict(pairs) == [t |-> "dict", v |-> pairs]

\* an exception that leaves the function instead of a value
Raised(kind) == [t |-> "raise", v |-> kind]

IsRaised(x) == x.t = "raise"

\* key in data
HasKey(d, k) == \E n \in 1..Len(d.v) : d.v[n].k = k

\* data[key]
Get(d, k) == d.v[CHOOSE n \in 1..Len(d.v) : d.v[n].k = k].x

\* data[key] = value: a present key keeps its place, a new one goes last
Put(d, k, x) ==
  IF HasKey(d, k)
  THEN VDict([n \in 1..Len(d.v) |-> IF d.v[n].k = k THEN [k |-> k, x |-> x] ELSE d.v[n]])
  ELSE VDict(Append(d.v, [k |-> k, x |-> x]))

(***************************************************************************)
(* json.loads, the strict decoder of the standard library, on the          *)
(* characters the model uses.  A scan returns [ok, v, e]: whether it       *)
(* succeeded, the value, and the position after it.                        *)
(***************************************************************************)
ScanFail == [ok |-> FALSE, v |-> None, e |-> 0]

ScanOk(x, e) == [ok |-> TRUE, v |-> x, e |-> e]

\* json.decoder.BACKSLASH
IsSimpleEscape(c) == c \in {DQ, BSL, "/", "b", "f", "n", "r", "t"}

SimpleEscape(c) ==
  CASE c = "n" -> LF [] c = "r" -> CR [] c = "t" -> TAB
    [] c = "b" -> "\\b" [] c = "f" -> "\f" [] OTHER -> c

HexDigits == Digits \cup {"a", "b", "c", "d", "e", "f", "A", "B", "C", "D", "E", "F"}

\* json.decoder.STRINGCHUNK: the characters a chunk runs over
IsStringContent(c) == c \notin {DQ, BSL, LF, CR, TAB}

RECURSIVE ScanString(_, _, _)
\* json.decoder.py_scanstring, strict, from position i (after the opening
\* quote): a chunk up to its terminator, then the escape if there is one
ScanString(s, i, acc) ==
  LET t == SkipRun(IsStringContent, s, i)
      content == acc \o Slice(s, i, t - 1)
  IN  IF t > Len(s) THEN ScanFail
      ELSE IF s[t] = DQ THEN ScanOk(content, t + 1)
      ELSE IF s[t] # BSL THEN ScanFail
      ELSE IF t + 1 > Len(s) THEN ScanFail
      ELSE IF IsSimpleEscape(s[t + 1])
        THEN ScanString(s, t + 2, Append(content, SimpleEscape(s[t + 1])))
      ELSE IF /\ s[t + 1] = "u"
              /\ t + 5 <= Len(s)
              /\ \A k \in 2..5 : s[t + k] \in HexDigits
        THEN ScanString(s, t + 6,
                        Append(content,
                               "\\u" \o s[t + 2] \o s[t + 3] \o s[t + 4] \o s[t + 5]))
      ELSE ScanFail

RECURSIVE DecimalValue(_, _)
\* the value of a run of digits, most significant first
DecimalValue(ds, acc) ==
  IF ds = <<>> THEN acc ELSE DecimalValue(Tail(ds), 10 * acc + DigitVal(Head(ds)))

\* json.scanner.NUMBER_RE, the integer part from a on: "0", or a digit other
\* than "0" and a run of digits
IntegerEnd(s, a) == IF a <= Len(s) /\ s[a] = "0" THEN a + 1 ELSE SkipDigits(s, a)

\* the optional fraction at b: "." and digits
FractionEnd(s, b) ==
  LET d == SkipDigits(s, b + 1)
  IN  IF b <= Len(s) /\ s[b] = "." /\ d > b + 1 THEN d ELSE b

\* the optional exponent at f: "e" or "E", a sign, digits
ExponentEnd(s, f) ==
  LET h == IF f + 1 <= Len(s) /\ s[f + 1] \in {"+", "-"} THEN f + 2 ELSE f + 1
      d == SkipDigits(s, h)
  IN  IF f <= Len(s) /\ s[f] \in {"e", "E"} /\ d > h THEN d ELSE f

\* int(integer) when there is neither fraction nor exponent, float(...)
\* otherwise; i..a-1 is the sign, a..b-1 the integer part, x the end
NumberValue(s, i, a, b, x) ==
  IF b = a THEN ScanFail
  ELSE IF x > b THEN ScanOk(VFloat(Slice(s, i, x - 1)), x)
  ELSE ScanOk(VInt((IF a > i THEN -1 ELSE 1) * DecimalValue(Slice(s, a, b - 1), 0)), b)

NumberFrom(s, i, a) ==
  NumberValue(s, i, a, IntegerEnd(s, a), ExponentEnd(s, FractionEnd(s, IntegerEnd(s, a))))

\* json.scanner.NUMBER_RE matched at i
ScanNumber(s, i) == NumberFrom(s, i, IF i <= Len(s) /\ s[i] = "-" THEN i + 1 ELSE i)

RECURSIVE ScanOnce(_, _), ScanPairs(_, _, _), ScanItems(_, _, _)

\* json.decoder.JSONObject after a value: the pair is kept, then the closing
\* brace ends the object or a comma and a quote start the next pair
PairAfterValue(s, acc, k, val) ==
  LET n == SkipSpace(s, val.e)
      q == SkipSpace(s, n + 1)
  IN  IF ~val.ok THEN ScanFail
      ELSE IF n > Len(s) THEN ScanFail
      ELSE IF s[n] = RBRACE THEN ScanOk(Put(acc, k, val.v), n + 1)
      ELSE IF s[n] # COMMA THEN ScanFail
      ELSE IF q <= Len(s) /\ s[q] = DQ THEN ScanPairs(s, q + 1, Put(acc, k, val.v))
      ELSE ScanFail

\* json.decoder.JSONObject after a key: the colon, then the value
PairAfterKey(s, acc, key) ==
  LET c == SkipSpace(s, key.e)
  IN  IF ~key.ok THEN ScanFail
      ELSE IF ~(c <= Len(s) /\ s[c] = COLON) THEN ScanFail
      ELSE PairAfterValue(s, acc, key.v, ScanOnce(s, SkipSpace(s, c + 1)))

\* json.decoder.JSONObject from position i, after the opening quote of a key;
\* the pairs go through dict(), where a repeated key keeps its first place
\* and takes the last value
ScanPairs(s, i, acc) == PairAfterKey(s, acc, ScanString(s, i, <<>>))

\* json.decoder.JSONArray after a value: the item is kept, then the closing
\* bracket ends the array or a comma starts the next item
ItemAfterValue(s, acc, val) ==
  LET n == SkipSpace(s, val.e)
  IN  IF ~val.ok THEN ScanFail
      ELSE IF n > Len(s) THEN ScanFail
      ELSE IF s[n] = RBRACK THEN ScanOk(VList(Append(acc, val.v)), n + 1)
      ELSE IF s[n] # COMMA THEN ScanFail
      ELSE ScanItems(s, SkipSpace(s, n + 1), Append(acc, val.v))

\* json.decoder.JSONArray from position i, the start of an item
ScanItems(s, i, acc) == ItemAfterValue(s, acc, ScanOnce(s, i))

\* json.scanner.py_make_scanner._scan_once
ScanOnce(s, i) ==
  IF i > Len(s) THEN ScanFail
  ELSE IF s[i] = DQ THEN
    LET r == ScanString(s, i + 1, <<>>)
    IN  IF r.ok THEN ScanOk(VStr(r.v), r.e) ELSE ScanFail
  ELSE IF s[i] = LBRACE THEN
    \* json.decoder.JSONObject: an empty object, or the pairs
    LET j == SkipSpace(s, i + 1)
    IN  IF j <= Len(s) /\ s[j] = RBRACE THEN ScanOk(VDict(<<>>), j + 1)
        ELSE IF j <= Len(s) /\ s[j] = DQ THEN ScanPairs(s, j + 1, VDict(<<>>))
        ELSE ScanFail
  ELSE IF s[i] = LBRACK THEN
    \* json.decoder.JSONArray: an empty array, or the items
    LET j == SkipSpace(s, i + 1)
    IN  IF j <= Len(s) /\ s[j] = RBRACK THEN ScanOk(VList(<<>>), j + 1)
        ELSE ScanItems(s, j, <<>>)
  ELSE IF StartsAt(s, i, <<"n", "u", "l", "l">>) THEN ScanOk(None, i + 4)
  ELSE IF StartsAt(s, i, <<"t", "r", "u", "e">>) THEN ScanOk(VBool(TRUE), i + 4)
  ELSE IF StartsAt(s, i, <<"f", "a", "l", "s", "e">>) THEN ScanOk(VBool(FALSE), i + 5)
  ELSE IF StartsAt(s, i, <<"N", "a", "N">>) THEN ScanOk(VFloat(<<"n", "a", "n">>), i + 3)
  ELSE IF StartsAt(s, i, <<"I", "n", "f", "i", "n", "i", "t", "y">>)
    THEN ScanOk(VFloat(<<"i", "n", "f">>), i + 8)
  ELSE IF StartsAt(s, i, <<"-", "I", "n", "f", "i", "n", "i", "t", "y">>)
    THEN ScanOk(VFloat(<<"-", "i", "n", "f">>), i + 9)
  ELSE ScanNumber(s, i)

JSONDecodeError == Raised("JSONDecodeError")

\* JSONDecoder.decode: the value scanned, if only whitespace follows it
Whole(s, r) == IF r.ok /\ SkipSpace(s, r.e) = Len(s) + 1 THEN r.v ELSE JSONDecodeError

\* json.loads: one value, whitespace around it, nothing else
json_loads(s) == Whole(s, ScanOnce(s, SkipSpace(s, 1)))

(***************************************************************************)
(* Schema: [type, properties, items, required].  properties is the         *)
(* sequence of [k |-> name, s |-> Schema] in insertion order; items is     *)
(* <<>> for None and <<Schema>> otherwise.                                 *)
(***************************************************************************)
Schema(type, properties, items, required) ==
  [type |-> type, properties |-> properties, items |-> items, required |-> required]

Basic(type) == Schema(type, <<>>, <<>>, <<>>)

ValueError == Raised("ValueError")

\* int(data) of a str: surrounding whitespace, a sign, digits, single
\* underscores between digits
IntOfString(chars) ==
  LET w == Strip(chars)
      d == IF w # <<>> /\ w[1] \in {"+", "-"} THEN Tail(w) ELSE w
      digits == SelectSeq(d, LAMBDA c : c # "_")
      wellFormed ==
        /\ d # <<>>
        /\ \A n \in 1..Len(d) :
             \/ d[n] \in Digits
             \/ d[n] = "_" /\ 1 < n /\ n < Len(d) /\ d[n - 1] \in Digits /\ d[n + 1] \in Digits
  IN  IF wellFormed
      THEN VInt((IF w[1] = "-" THEN -1 ELSE 1) * DecimalValue(digits, 0))
      ELSE ValueError

\* float(data) of a str that contains ".": surrounding whitespace, a sign,
\* digits around the point (one at least), an exponent
FloatOfString(chars) ==
  LET w == Strip(chars)
      a == IF w # <<>> /\ w[1] \in {"+", "-"} THEN 2 ELSE 1
      b == SkipDigits(w, a)
      c == IF b <= Len(w) /\ w[b] = "." THEN SkipDigits(w, b + 1) ELSE b
      h == IF c + 1 <= Len(w) /\ w[c + 1] \in {"+", "-"} THEN c + 2 ELSE c + 1
      e == IF c <= Len(w) /\ w[c] \in {"e", "E"} /\ SkipDigits(w, h) > h
           THEN SkipDigits(w, h) ELSE c
  IN  IF (b > a \/ c > b + 1) /\ e = Len(w) + 1 THEN VFloat(w) ELSE ValueError

\* a float written with no digit other than 0 before its exponent
IsZeroFloat(lexeme) ==
  LET x == CHOOSE n \in 1..(Len(lexeme) + 1) :
             /\ n = Len(lexeme) + 1 \/ lexeme[n] \in {"e", "E"}
             /\ \A k \in 1..(n - 1) : lexeme[k] \notin {"e", "E"}
  IN  /\ \E k \in 1..(x - 1) : lexeme[k] \in Digits
      /\ \A k \in 1..(x - 1) : lexeme[k] \in Digits => lexeme[k] = "0"

\* not x
IsFalsy(x) ==
  \/ x.t = "null"
  \/ x.t = "bool" /\ x.v = FALSE
  \/ x.t = "int" /\ x.v = 0
  \/ x.t = "float" /\ IsZeroFloat(x.v)
  \/ x.t \in {"str", "list", "dict"} /\ Len(x.v) = 0

\* isinstance(data, type_map.get(self.type, object)); bool is a subclass
\* of int
IsAcceptedType(type, x) ==
  CASE type = "string" -> x.t = "str"
    [] type = "number" -> x.t \in {"int", "float", "bool"}
    [] type = "boolean" -> x.t = "bool"
    [] type = "null" -> x.t = "null"
    [] OTHER -> TRUE

\* accepted_type(data) for a str that is not of the accepted type; the
\* TypeError of NoneType(data) is caught and gives None, the ValueError of
\* int(data) and float(data) is not caught
CoerceString(type, x) ==
  CASE type = "number" ->
         IF \E n \in 1..Len(x.v) : x.v[n] = "." THEN FloatOfString(x.v)
         ELSE IntOfString(x.v)
    [] type = "boolean" -> VBool(Len(x.v) > 0)
    [] OTHER -> None

\* the basic-type branch
ValidatedBasic(type, x) ==
  IF ~IsAcceptedType(type, x) /\ x.t = "str" THEN CoerceString(type, x) ELSE x

\* missing_fields = [key for key in self.required if key not in data]
MissingFields(required, d) == SelectSeq(required, LAMBDA k : ~HasKey(d, k))

\* the required check refusing only a mapping that has none of the fields
RequiredCheckFailsIfAllMissing(sch, d) ==
  IF sch.required # <<>>
  THEN Len(MissingFields(sch.required, d)) = Len(sch.required)
  ELSE ~\E n \in 1..Len(sch.properties) : HasKey(d, sch.properties[n].k)

\* the check of lines 43-52: None when the mapping is refused
RequiredCheckFails(sch, d) ==
  IF sch.required # <<>>
  THEN MissingFields(sch.required, d) # <<>>
  ELSE ~\E n \in 1..Len(sch.properties) : HasKey(d, sch.properties[n].k)

RECURSIVE Run(_, _), ValidateProperties(_, _, _), ValidateItems(_, _, _, _)
RECURSIVE ValidatePropertiesFillingIn(_, _, _)

\* what a call of validated leaves: ret, the value returned (None: refused;
\* Raised: an exception), and arg, the argument data as the call leaves it,
\* the object branch assigning into the mapping it was given
Outcome(ret, arg) == [ret |-> ret, arg |-> arg]

\* value = sub_schema.validated(data[key]): None or an exception ends the
\* call, anything else is assigned to data[key] and the loop goes on
PropertyOutcome(props, n, d, r) ==
  IF IsRaised(r.ret) \/ r.ret.t = "null"
  THEN Outcome(r.ret, Put(d, props[n].k, r.arg))
  ELSE ValidateProperties(props, n + 1, Put(d, props[n].k, r.ret))

\* the property loop giving every property the mapping lacks the value None
ValidatePropertiesFillingIn(props, n, d) ==
  IF n > Len(props) THEN Outcome(d, d)
  ELSE IF ~HasKey(d, props[n].k)
    THEN ValidatePropertiesFillingIn(props, n + 1, Put(d, props[n].k, None))
  ELSE PropertyOutcome(props, n, d, Run(props[n].s, Get(d, props[n].k)))

\* for key, sub_schema in self.properties.items(): if key in data: ...
\* return data
ValidateProperties(props, n, d) ==
  IF n > Len(props) THEN Outcome(d, d)
  ELSE IF ~HasKey(d, props[n].k) THEN ValidateProperties(props, n + 1, d)
  ELSE PropertyOutcome(props, n, d, Run(props[n].s, Get(d, props[n].k)))

\* if not self.items.validated(item): return None  (the value returned is
\* dropped; the item stays in the list as the call left it)
ItemOutcome(items, l, n, acc, r) ==
  IF IsRaised(r.ret)
  THEN Outcome(r.ret, VList(acc \o <<r.arg>> \o Slice(l, n + 1, Len(l))))
  ELSE IF IsFalsy(r.ret)
  THEN Outcome(None, VList(acc \o <<r.arg>> \o Slice(l, n + 1, Len(l))))
  ELSE ValidateItems(items, l, n + 1, Append(acc, r.arg))

\* for item in data: ...; return data
ValidateItems(items, l, n, acc) ==
  IF n > Len(l) THEN Outcome(VList(acc), VList(acc))
  ELSE ItemOutcome(items, l, n, acc, Run(items, l[n]))

\* the object branch ends: the mapping validated was data itself, or the
\* first element of the list data
ObjectOutcome(x, r) ==
  Outcome(r.ret, IF x.t = "list" THEN VList(<<r.arg>> \o Tail(x.v)) ELSE r.arg)

\* the array branch ends: the list validated was data itself, or the first
\* value of the mapping data
ArrayOutcome(x, r) ==
  Outcome(r.ret,
          IF x.t = "dict" THEN VDict(<<[k |-> x.v[1].k, x |-> r.arg]>> \o Tail(x.v))
          ELSE r.arg)

\* Schema.validated(data)
Run(sch, x) ==
  IF sch.type = "object" THEN
    LET d == IF x.t = "list" /\ Len(x.v) > 0 THEN x.v[1] ELSE x
    IN  IF x.t = "list" /\ Len(x.v) = 0 THEN Outcome(None, x)
        ELSE IF d.t # "dict" THEN Outcome(None, x)
        ELSE IF RequiredCheckFails(sch, d) THEN Outcome(None, x)
        ELSE ObjectOutcome(x, ValidateProperties(sch.properties, 1, d))
  ELSE IF sch.type = "array" THEN
    LET l == IF x.t = "dict" /\ Len(x.v) > 0 THEN x.v[1].x ELSE x
    IN  IF x.t = "dict" /\ Len(x.v) = 0 THEN Outcome(None, x)
        ELSE IF l.t # "list" THEN Outcome(None, x)
        ELSE IF Len(sch.items) = 0 THEN Outcome(l, x)
        ELSE ArrayOutcome(x, ValidateItems(sch.items[1], l.v, 1, <<>>))
  ELSE Outcome(ValidatedBasic(sch.type, x), x)

\* the value validated returns, or the exception it raises
validated(sch, x) == Run(sch, x).ret

\* the argument after the call
mutated(sch, x) == Run(sch, x).arg

(***************************************************************************)
(* BRACE_BRACKET and JSONParser.extract_json_candidates                    *)
(***************************************************************************)
IsNoBracket(c) == c \notin {LBRACE, RBRACE, LBRACK, RBRACK}

RECURSIVE MatchGroup(_, _, _)
\* The end of the first successful path of the recursive pattern from
\* position from on, or 0.  open holds the brackets of the groups entered and
\* not yet closed, the innermost last.  A character that is no bracket is
\* taken by the first alternative of either group.  At a bracket the
\* alternatives are tried in the pattern's order: a character that is not a
\* bracket of the innermost group's kind; a nested group; no further
\* repetition, and the innermost group's closer.
MatchGroup(t, from, open) ==
  LET i == SkipRun(IsNoBracket, t, from)
  IN  IF i > Len(t) THEN 0
      ELSE
        LET kind == Last(open)
            plain == IF t[i] \notin {kind, opening_brackets(kind)}
                     THEN MatchGroup(t, i + 1, open) ELSE 0
            nested == IF IsOpening(t[i])
                      THEN MatchGroup(t, i + 1, Append(open, t[i])) ELSE 0
        IN  IF plain # 0 THEN plain
            ELSE IF nested # 0 THEN nested
            ELSE IF t[i] # opening_brackets(kind) THEN 0
            ELSE IF Len(open) = 1 THEN i + 1
            ELSE MatchGroup(t, i + 1, Front(open))

\* BRACE_BRACKET.findall(text): the matches from left to right, not
\* overlapping
FindAll(t) ==
  LET Turn(st) ==
        LET e == IF IsOpening(t[st.i]) THEN MatchGroup(t, st.i + 1, <<t[st.i]>>) ELSE 0
        IN  IF e = 0 THEN [st EXCEPT !.i = st.i + 1]
            ELSE [i |-> e, found |-> Append(st.found, Slice(t, st.i, e - 1))]
  IN  While(Turn, [i |-> 1, found |-> <<>>], 1, Len(t)).found

\* the extraction taking the whole text, closed, whatever the pattern finds
ExtractWholeText(t) == <<ensure_ending_brackets(t)>>

extract_json_candidates(t) ==
  LET candidates == FindAll(t)
  IN  IF candidates = <<>> THEN <<ensure_ending_brackets(t)>> ELSE candidates

(***************************************************************************)
(* JSONParser.parse                                                        *)
(***************************************************************************)
NoMatch == Raised("No matching JSON object found.")

Skipped(why) == [t |-> "skip", v |-> why]

\* one turn of the for loop: the value returned, the exception that leaves
\* parse, or the reason the candidate is passed over
Attempt(sch, candidate) ==
  LET fixed == fix_json(candidate)
      decoded == json_loads(fixed)
      value == validated(sch, decoded)
  IN  IF fixed = <<>> THEN Skipped("empty")
      ELSE IF IsRaised(decoded) THEN Skipped("JSONDecodeError")
      ELSE IF IsRaised(value) THEN value
      ELSE IF value.t = "null" THEN Skipped("None")
      ELSE value

RECURSIVE ParseFrom(_, _, _)
\* the for loop from candidate n on, and the raise after it
ParseFrom(sch, cs, n) ==
  IF n > Len(cs) THEN NoMatch
  ELSE
    LET o == Attempt(sch, cs[n])
    IN  IF o.t = "skip" THEN ParseFrom(sch, cs, n + 1) ELSE o

\* parse(text) as a function: the value returned or the exception raised
parse(sch, t) ==
  LET json_candidates == extract_json_candidates(t)
  IN  ParseFrom(sch, json_candidates, 1)

(***************************************************************************)
(* Inputs                                                                  *)
(***************************************************************************)
\* the longest prose put before and after a payload
MaxProse == 1

\* the most closing brackets cut off the end of a payload
MaxCut == 2

\* the longest text given to ensure_ending_brackets on its own
MaxLen == 4

\* the longest list among the values given to validated on its own
MaxList == 1

kName == <<"n", "a", "m", "e">>

kAge == <<"a", "g", "e">>

kEmails == <<"e", "m", "a", "i", "l", "s">>

kTest == <<"t", "e", "s", "t">>

\* the Schema of src/test.py, with and without its required list
TestProperties ==
  << [k |-> kName, s |-> Basic("string")],
     [k |-> kAge, s |-> Basic("number")],
     [k |-> kEmails, s |-> Schema("array", <<>>, <<Basic("string")>>, <<>>)] >>

SchemaRequired == Schema("object", TestProperties, <<>>, <<kName, kAge>>)

SchemaOpen == Schema("object", TestProperties, <<>>, <<>>)

Quoted(chars) == <<DQ>> \o chars \o <<DQ>>

\* the texts of the values a field takes; 0 stands for a field left out
NameTexts ==
  << Quoted(<<"A", "l">>),
     Quoted(<<"x", SP, "y">>),
     Quoted(<<"a", COLON, "b">>),
     Quoted(<<"a", BSL, BSL, "b">>),
     Quoted(<<"a", BSL, DQ, "b">>),
     Quoted(<<"a", RBRACK, "b">>),
     Quoted(<<"a", RBRACE, "b">>) >>

AgeTexts ==
  << <<"3", "0">>,
     Quoted(<<"2", "5">>),
     Quoted(<<"a", "b", "c">>),
     <<"t", "r", "u", "e">> >>

EmailsTexts == << <<LBRACK>> \o Quoted(<<"b">>) \o <<RBRACK>> >>

RECURSIVE Join(_, _)
\* sep.join(parts)
Join(parts, sep) ==
  IF parts = <<>> THEN <<>>
  ELSE IF Len(parts) = 1 THEN parts[1]
  ELSE parts[1] \o sep \o Join(Tail(parts), sep)

Member(k, texts, n) ==
  IF n = 0 THEN <<>> ELSE << Quoted(k) \o <<COLON>> \o texts[n] >>

\* the text of an object with the chosen fields
ObjectText(n, a, e) ==
  <<LBRACE>>
    \o Join(Member(kName, NameTexts, n) \o Member(kAge, AgeTexts, a)
              \o Member(kEmails, EmailsTexts, e), <<COMMA>>)
    \o <<RBRACE>>

Objects ==
  { ObjectText(n, a, e) : n \in 0..Len(NameTexts), a \in 0..Len(AgeTexts),
                          e \in 0..Len(EmailsTexts) }

InArray(t) == <<LBRACK>> \o t \o <<RBRACK>>

\* payloads that are scalars
Scalars == { <<"1", "2">>, Quoted(<<"s">>), <<"t", "r", "u", "e">> }

\* objects that match SchemaRequired, and one that lacks a required field
SecondObjects == { ObjectText(1, 1, 0), ObjectText(2, 1, 1), ObjectText(1, 0, 1) }

\* payloads put between prose and cut short
Payloads ==
  { ObjectText(1, 1, 1), ObjectText(1, 1, 0), ObjectText(1, 0, 1), ObjectText(3, 2, 0),
    ObjectText(7, 1, 1), ObjectText(1, 3, 0), InArray(ObjectText(1, 1, 0)),
    InArray(ObjectText(2, 1, 1)) } \cup Scalars

ProseChars == {"x", SP, COLON}

\* the texts without brackets of length MaxProse at most
Prose == UNION { [1..m -> ProseChars] : m \in 0..MaxProse }

\* texts that are no JSON: the repairs of src/test.py, and stray brackets
Oddities ==
  { <<>>,
    <<RBRACE>>,
    <<LBRACE>> \o kName \o <<COLON, SP, "A", "l", COMMA, SP, SQ>> \o kAge
       \o <<SQ, COLON, SP, "3", "0", RBRACE>>,
    <<LBRACE>> \o Quoted(kName) \o <<COLON, SP>> \o Quoted(<<"A", "l">>) \o <<COMMA, SP>>
       \o Quoted(kAge) \o <<COLON, SP, "2", "2", COMMA, SP>> \o Quoted(kTest)
       \o <<COLON, SP, "H", "i", SP, "y", "o", "u", RBRACE>>,
    <<LBRACE>> \o Quoted(kName) \o <<COLON>> \o Quoted(<<"h", "e", SP, DQ, "h", "i", DQ, SP, "x">>)
       \o <<COMMA>> \o Quoted(kAge) \o <<COLON, "1", RBRACE>>,
    <<LBRACE>> \o Quoted(kAge) \o <<COLON, "1", SP>> \o Quoted(kName) \o <<COLON>>
       \o Quoted(<<"u">>) \o <<RBRACE>> }

RECURSIVE TrailingClosers(_)
\* how many closing brackets end the text
TrailingClosers(t) ==
  IF t # <<>> /\ IsClosing(Last(t)) THEN 1 + TrailingClosers(Front(t)) ELSE 0

Shape(form, prefix, payload, cut, sep, second, suffix) ==
  [form |-> form, prefix |-> prefix, payload |-> payload, cut |-> cut,
   sep |-> sep, second |-> second, suffix |-> suffix]

\* the input text of a shape
Render(sh) ==
  sh.prefix \o Slice(sh.payload, 1, Len(sh.payload) - sh.cut) \o sh.sep \o sh.second
    \o sh.suffix

Shapes ==
  { Shape("single", <<>>, p, 0, <<>>, <<>>, <<>>) :
      p \in Objects \cup { InArray(o) : o \in Objects } \cup Oddities }
  \cup { Shape("pair", <<>>, p, 0, sep, q, <<>>) :
           p \in Objects, sep \in {<<>>, <<COMMA>>, <<SP>>}, q \in SecondObjects }
  \cup { Shape("prose", a, p, 0, <<>>, <<>>, b) : a \in Prose, p \in Payloads, b \in Prose }
  \cup { sh \in { Shape("cut", a, p, k, <<>>, <<>>, <<>>) :
                    a \in Prose, p \in Payloads, k \in 1..MaxCut } :
           sh.cut <= TrailingClosers(sh.payload) }

(***************************************************************************)
(* Spec: one call of JSONParser.parse                                      *)
(***************************************************************************)
Init ==
  /\ pc = "start"
  /\ shape \in Shapes
  /\ text = Render(shape)
  /\ schema \in {SchemaRequired, SchemaOpen, Basic("number")}
  /\ shape.form \in {"pair", "cut"} => schema = SchemaRequired
  /\ shape.form = "single" => schema.type = "object"
  /\ shape.form = "prose" => schema # SchemaOpen
  /\ cands = <<>>
  /\ idx = 0
  /\ fixed_json = <<>>
  /\ loaded = None
  /\ result = None

\* json_candidates = self.extract_json_candidates(text)
Extract ==
  /\ pc = "start"
  /\ cands' = extract_json_candidates(text)
  /\ idx' = 1
  /\ pc' = "for"
  /\ UNCHANGED <<shape, text, schema, fixed_json, loaded, result>>

\* fixed_json = self.fix_json(candidate)
Fix ==
  /\ pc = "for"
  /\ idx <= Len(cands)
  /\ fixed_json' = fix_json(cands[idx])
  /\ pc' = "fixed"
  /\ UNCHANGED <<shape, text, schema, cands, idx, loaded, result>>

\* if not fixed_json: continue
SkipEmpty ==
  /\ pc = "fixed"
  /\ fixed_json = <<>>
  /\ idx' = idx + 1
  /\ pc' = "for"
  /\ UNCHANGED <<shape, text, schema, cands, fixed_json, loaded, result>>

\* loaded = json.loads(fixed_json)
Load ==
  /\ pc = "fixed"
  /\ fixed_json # <<>>
  /\ ~IsRaised(json_loads(fixed_json))
  /\ loaded' = json_loads(fixed_json)
  /\ pc' = "loaded"
  /\ UNCHANGED <<shape, text, schema, cands, idx, fixed_json, result>>

\* except JSONDecodeError: continue
SkipUndecodable ==
  /\ pc = "fixed"
  /\ fixed_json # <<>>
  /\ IsRaised(json_loads(fixed_json))
  /\ idx' = idx + 1
  /\ pc' = "for"
  /\ UNCHANGED <<shape, text, schema, cands, fixed_json, loaded, result>>

\* validated_data = self.schema.validated(loaded); return validated_data
Return ==
  /\ pc = "loaded"
  /\ validated(schema, loaded).t \notin {"null", "raise"}
  /\ result' = validated(schema, loaded)
  /\ loaded' = mutated(schema, loaded)
  /\ pc' = "returned"
  /\ UNCHANGED <<shape, text, schema, cands, idx, fixed_json>>

\* validated_data is None: the next turn of the loop
SkipInvalid ==
  /\ pc = "loaded"
  /\ validated(schema, loaded).t = "null"
  /\ loaded' = mutated(schema, loaded)
  /\ idx' = idx + 1
  /\ pc' = "for"
  /\ UNCHANGED <<shape, text, schema, cands, fixed_json, result>>

\* validated raises an exception that is no JSONDecodeError: it leaves parse
Propagate ==
  /\ pc = "loaded"
  /\ IsRaised(validated(schema, loaded))
  /\ result' = validated(schema, loaded)
  /\ loaded' = mutated(schema, loaded)
  /\ pc' = "raised"
  /\ UNCHANGED <<shape, text, schema, cands, idx, fixed_json>>

\* raise ValueError("No matching JSON object found.")
Exhaust ==
  /\ pc = "for"
  /\ idx > Len(cands)
  /\ result' = NoMatch
  /\ pc' = "raised"
  /\ UNCHANGED <<shape, text, schema, cands, idx, fixed_json, loaded>>

Next ==
  \/ Extract
  \/ Fix
  \/ SkipEmpty
  \/ Load
  \/ SkipUndecodable
  \/ Return
  \/ SkipInvalid
  \/ Propagate
  \/ Exhaust

Spec == Init /\ [][Next]_vars

Done == pc \in {"returned", "raised"}

(***************************************************************************)
(* SpecValidate: one call of Schema.validated                              *)
(***************************************************************************)
ArrayOfStrings == Schema("array", <<>>, <<Basic("string")>>, <<>>)

ValidateSchemas ==
  { Basic("number"), Basic("string"), Basic("boolean"), Basic("null"),
    SchemaRequired, SchemaOpen, ArrayOfStrings }

ScalarValues ==
  << None, VBool(TRUE), VBool(FALSE), VInt(0), VInt(30), VFloat(<<"1", ".", "5">>),
     VStr(<<>>), VStr(<<"a", "b", "c">>), VStr(<<"2", "5">>), VStr(<<"2", ".", "5">>),
     VStr(<<"t", "r", "u", "e">>), VStr(<<"n", "u", "l", "l">>) >>

ItemValues == << VStr(<<"b">>), VStr(<<>>), VInt(1) >>

\* the lists of MaxList items at most, each item given by its place in
\* ItemValues
ListChoices == UNION { [1..m -> 1..Len(ItemValues)] : m \in 0..MaxList }

ListValue(f) == VList([k \in 1..Len(f) |-> ItemValues[f[k]]])

NameValues == << VStr(<<"A", "l">>), VInt(7) >>

AgeValues ==
  << VInt(30), VStr(<<"2", "5">>), VStr(<<"a", "b", "c">>), VBool(TRUE), VBool(FALSE) >>

TestValues == << VStr(<<"h", "i">>), VInt(3) >>

Pair(k, values, n) == IF n = 0 THEN <<>> ELSE << [k |-> k, x |-> values[n]] >>

\* a mapping with the chosen fields; 0 stands for a field left out; emails
\* holds the list f, or a mapping that holds it
DictValue(n, t, a, e, f, inner) ==
  VDict(Pair(kName, NameValues, n) \o Pair(kTest, TestValues, t) \o Pair(kAge, AgeValues, a)
          \o (IF e = 0 THEN <<>>
              ELSE IF inner THEN << [k |-> kEmails, x |-> VDict(<<[k |-> kTest, x |-> ListValue(f)]>>)] >>
              ELSE << [k |-> kEmails, x |-> ListValue(f)] >>))

\* the shape of a call of validated alone: payload keeps the argument as it
\* was passed
ValueShape(x) == Shape("value", <<>>, x, 0, <<>>, <<>>, <<>>)

InitValidate ==
  /\ pc = "call"
  /\ schema \in ValidateSchemas
  /\ \/ \E n \in 1..Len(ScalarValues) : loaded = ScalarValues[n]
     \/ \E f \in ListChoices : loaded = ListValue(f)
     \/ \E n \in 0..Len(NameValues), t \in 0..Len(TestValues), a \in 0..Len(AgeValues),
           e \in 0..1, f \in ListChoices, inner \in BOOLEAN, wrapped \in BOOLEAN :
          /\ e = 0 => (f = <<>> /\ ~inner)
          /\ loaded = IF wrapped THEN VList(<<DictValue(n, t, a, e, f, inner)>>)
                      ELSE DictValue(n, t, a, e, f, inner)
  /\ shape = ValueShape(loaded)
  /\ text = <<>>
  /\ cands = <<>>
  /\ idx = 0
  /\ fixed_json = <<>>
  /\ result = None

\* validated returns a value, None included
ValidatedReturns ==
  /\ pc = "call"
  /\ ~IsRaised(validated(schema, loaded))
  /\ result' = validated(schema, loaded)
  /\ loaded' = mutated(schema, loaded)
  /\ pc' = "returned"
  /\ UNCHANGED <<shape, text, schema, cands, idx, fixed_json>>

\* validated raises: int(data) or float(data) of a str that is no number
ValidatedRaises ==
  /\ pc = "call"
  /\ IsRaised(validated(schema, loaded))
  /\ result' = validated(schema, loaded)
  /\ loaded' = mutated(schema, loaded)
  /\ pc' = "raised"
  /\ UNCHANGED <<shape, text, schema, cands, idx, fixed_json>>

NextValidate ==
  \/ ValidatedReturns
  \/ ValidatedRaises

SpecValidate == InitValidate /\ [][NextValidate]_vars

(***************************************************************************)
(* SpecBrackets: one call of JSONParser.ensure_ending_brackets             *)
(***************************************************************************)
BracketChars == {LBRACE, RBRACE, LBRACK, RBRACK, DQ, BSL, "a"}

\* the texts of MaxLen characters at most
BracketTexts == UNION { [1..m -> BracketChars] : m \in 0..MaxLen }

InitBrackets ==
  /\ pc = "call"
  /\ text \in BracketTexts
  /\ shape = Shape("text", <<>>, text, 0, <<>>, <<>>, <<>>)
  /\ schema = Basic("string")
  /\ cands = <<>>
  /\ idx = 0
  /\ fixed_json = <<>>
  /\ loaded = None
  /\ result = None

\* json_str = self.ensure_ending_brackets(json_str)
CloseBrackets ==
  /\ pc = "call"
  /\ fixed_json' = ensure_ending_brackets(text)
  /\ pc' = "returned"
  /\ UNCHANGED <<shape, text, schema, cands, idx, loaded, result>>

NextBrackets == CloseBrackets

SpecBrackets == InitBrackets /\ [][NextBrackets]_vars

(***************************************************************************)
(* What the documentation calls a value matching a Schema                  *)
(***************************************************************************)
RECURSIVE Conforms(_, _)
Conforms(sch, x) ==
  CASE sch.type = "object" ->
         /\ x.t = "dict"
         /\ \A n \in 1..Len(sch.required) : HasKey(x, sch.required[n])
         /\ sch.required = <<>> =>
              \E n \in 1..Len(sch.properties) : HasKey(x, sch.properties[n].k)
         /\ \A n \in 1..Len(sch.properties) :
              HasKey(x, sch.properties[n].k) =>
                Conforms(sch.properties[n].s, Get(x, sch.properties[n].k))
    [] sch.type = "array" ->
         /\ x.t = "list"
         /\ sch.items # <<>> => \A n \in 1..Len(x.v) : Conforms(sch.items[1], x.v[n])
    [] sch.type = "string" -> x.t = "str"
    [] sch.type = "number" -> x.t \in {"int", "float"}
    [] sch.type = "boolean" -> x.t = "bool"
    [] sch.type = "null" -> x.t = "null"
    [] OTHER -> FALSE

RECURSIVE Same(_, _)
\* equality of two values: the same kind and the same content, mappings
\* compared key by key whatever the order of their keys
Same(x, y) ==
  /\ x.t = y.t
  /\ CASE x.t = "list" ->
             /\ Len(x.v) = Len(y.v)
             /\ \A n \in 1..Len(x.v) : Same(x.v[n], y.v[n])
        [] x.t = "dict" ->
             /\ Len(x.v) = Len(y.v)
             /\ \A n \in 1..Len(x.v) :
                  /\ HasKey(y, x.v[n].k)
                  /\ Same(x.v[n].x, Get(y, x.v[n].k))
        [] OTHER -> x.v = y.v

\* validated returned None
Rejected(x) == x.t = "null"

\* what a candidate decodes to after its repair
Decoded(candidate) ==
  LET fixed == fix_json(candidate)
  IN  json_loads(fixed)

\* the mapping an object Schema looks at: the value, or the first element
\* of a sequence
Target(x) == IF x.t = "list" /\ Len(x.v) > 0 THEN x.v[1] ELSE x

LacksRequired(sch, x) ==
  /\ Target(x).t = "dict"
  /\ \E n \in 1..Len(sch.required) : ~HasKey(Target(x), sch.required[n])

Cex_C2 == pc = "raised" => (Same(result, NoMatch) /\ idx > Len(cands))

\* C4: for two adjacent objects that both match the Schema, with or without
\* a comma between them, parse returns the decode of the left one.
Cex_C4 ==
  LET left == json_loads(shape.payload)
      right == json_loads(shape.second)
  IN  ( /\ Done
        /\ shape.form = "pair"
        /\ shape.sep \in {<<>>, <<COMMA>>}
        /\ Conforms(schema, left)
        /\ Conforms(schema, right) ) =>
        (pc = "returned" /\ Same(result, left))

\* C5: for a text that is a valid JSON object matching the Schema, parse
\* returns the decode of the text.
Cex_C5 ==
  LET canonical == json_loads(text)
  IN  ( /\ Done
        /\ shape.form = "single"
        /\ canonical.t = "dict"
        /\ Conforms(schema, canonical) ) =>
        (pc = "returned" /\ Same(result, canonical))

\* C6 as stated: for every valid JSON payload between two texts without
\* brackets, parse ends as it does on the payload alone.
Cex_C6 ==
  LET payload == json_loads(shape.payload)
      alone == parse(schema, shape.payload)
  IN  (Done /\ shape.form = "prose" /\ ~IsRaised(payload)) => Same(result, alone)

\* C6 amended: for every valid JSON payload that is an object or an array,
\* between two texts without brackets, parse ends as it does on the payload
\* alone (the same value, or the same exception).
Thm_C6 ==
  LET payload == json_loads(shape.payload)
      alone == parse(schema, shape.payload)
  IN  (Done /\ shape.form = "prose" /\ payload.t \in {"dict", "list"}) =>
        Same(result, alone)

\* C6 witness: parse returned a mapping for an object between two
\* non-empty texts
Witness_C6 ==
  LET payload == json_loads(shape.payload)
  IN  /\ pc = "returned"
      /\ shape.form = "prose"
      /\ shape.prefix # <<>>
      /\ shape.suffix # <<>>
      /\ payload.t = "dict"
      /\ result.t = "dict"

\* C7: for a payload matching the Schema (an object, or an array of one
\* object) that lost only closing brackets at its end, with or without
\* prose before it, parse returns the value of the complete payload.
Cex_C7 ==
  LET payload == json_loads(shape.payload)
      complete == Target(payload)
  IN  ( /\ Done
        /\ shape.form = "cut"
        /\ payload.t \in {"dict", "list"}
        /\ Conforms(schema, complete) ) =>
        (pc = "returned" /\ Same(result, complete))

(***************************************************************************)
(* Claims about validated                                                  *)
(***************************************************************************)
\* the property of an object Schema named k, if there is one
IsProperty(sch, k) == \E n \in 1..Len(sch.properties) : sch.properties[n].k = k

PropertySchema(sch, k) ==
  sch.properties[CHOOSE n \in 1..Len(sch.properties) : sch.properties[n].k = k].s

\* C3: a number Schema refuses a boolean, and an object Schema with a
\* number property refuses a mapping in which that property holds a boolean.
Cex_C3 ==
  LET given == shape.payload
      target == Target(given)
  IN  ( /\ Done
        /\ \/ schema.type = "number" /\ given.t = "bool"
           \/ /\ schema.type = "object"
              /\ target.t = "dict"
              /\ \E n \in 1..Len(target.v) :
                   /\ IsProperty(schema, target.v[n].k)
                   /\ PropertySchema(schema, target.v[n].k).type = "number"
                   /\ target.v[n].x.t = "bool" ) =>
        (pc = "returned" /\ Rejected(result))

\* C8: when an object Schema accepts a mapping, the mapping returned has
\* the keys of the mapping given, no more and no fewer; a key that is no
\* property keeps its value; a key that is a property holds what the child
\* Schema returned for its value.
Thm_C8 ==
  LET given == Target(shape.payload)
  IN  (pc = "returned" /\ schema.type = "object" /\ ~Rejected(result)) =>
        /\ given.t = "dict"
        /\ result.t = "dict"
        /\ Len(result.v) = Len(given.v)
        /\ \A n \in 1..Len(given.v) :
             /\ HasKey(result, given.v[n].k)
             /\ ~IsProperty(schema, given.v[n].k) =>
                  Same(Get(result, given.v[n].k), given.v[n].x)
             /\ IsProperty(schema, given.v[n].k) =>
                  Same(Get(result, given.v[n].k),
                       validated(PropertySchema(schema, given.v[n].k), given.v[n].x))

\* C8 witness: a mapping without name, with the unknown key test and with
\* age as a string of digits was accepted; age came back as a number
Witness_C8 ==
  LET given == shape.payload
  IN  /\ pc = "returned"
      /\ schema = SchemaOpen
      /\ given.t = "dict"
      /\ ~HasKey(given, kName)
      /\ HasKey(given, kTest)
      /\ HasKey(given, kAge)
      /\ Get(given, kAge).t = "str"
      /\ result.t = "dict"
      /\ Get(result, kAge).t = "int"

\* C9: a boolean Schema and a null Schema refuse every string.
Cex_C9 ==
  (Done /\ schema.type \in {"boolean", "null"} /\ shape.payload.t = "str") =>
    (pc = "returned" /\ Rejected(result))

(***************************************************************************)
(* Claims about ensure_ending_brackets                                     *)
(***************************************************************************)
RECURSIVE Nests(_, _)
\* the brackets of s pair up and nest, open being the openers met before s
Nests(s, open) ==
  IF s = <<>> THEN open = <<>>
  ELSE IF IsOpening(Head(s)) THEN Nests(Tail(s), Append(open, Head(s)))
  ELSE IF IsClosing(Head(s)) THEN
    /\ open # <<>>
    /\ Last(open) = closing_brackets(Head(s))
    /\ Nests(Tail(s), Front(open))
  ELSE Nests(Tail(s), open)

Balanced(s) == Nests(s, <<>>)

QuoteFree(s) == \A n \in 1..Len(s) : s[n] \notin {DQ, SQ, BSL}

NotClosing(c) == ~IsClosing(c)

\* C10: the output is a part that keeps, in order, every character of the
\* input that is no closing bracket and drops only closing brackets, then
\* closing brackets only; for an input without quotes and backslashes the
\* output is balanced, and a balanced input comes back unchanged.
Thm_C10 ==
  pc = "returned" =>
    /\ \E k \in 0..Len(fixed_json) :
         /\ k <= Len(text)
         /\ SelectSeq(Slice(fixed_json, 1, k), NotClosing) = SelectSeq(text, NotClosing)
         /\ \A m \in (k + 1)..Len(fixed_json) : IsClosing(fixed_json[m])
    /\ QuoteFree(text) =>
         /\ Balanced(fixed_json)
         /\ Balanced(text) => fixed_json = text

\* C10 witness: a stray closer was dropped and two openers were closed,
\* the inner one first
Witness_C10 ==
  /\ pc = "returned"
  /\ text = <<RBRACE, LBRACE, LBRACK, "a">>
  /\ fixed_json = <<LBRACE, LBRACK, "a", RBRACK, RBRACE>>

====
